---- MODULE Spec2Model ----
(***************************************************************************)
(* A model of mkaudio's src/lib.rs: the manually reference-counted         *)
(* AudioBuffer (heap regions, shared counters, the sample codec) and the   *)
(* AudioDevice built on it.                                                *)
(*                                                                         *)
(* The heap is explicit: a region or counter cell is "unused", "alloc" or  *)
(* "freed".  The allocator may hand a freed cell out again, so a dangling  *)
(* pointer can come to alias a later allocation.  Accesses the source      *)
(* performs through raw pointers are checked against that heap and every   *)
(* invalid one is recorded in `fault`.                                     *)
(***************************************************************************)
EXTENDS Integers, Sequences, FiniteSets, TLC

VARIABLES
    build,      \* "debug" | "release": whether integer overflow panics
    handles,    \* AudioBuffer values owned by the program, by slot
    regions,    \* heap regions pointed to by AudioBuffer.data
    counters,   \* heap cells pointed to by AudioBuffer.ref_count
    fault,      \* invalid memory operations performed so far
    last,       \* what the most recent operation did and returned
    writes,     \* number of AudioBuffer::write calls so far
    threads,    \* per thread: where it is inside clone or drop, and its locals
    owner,      \* per handle slot: the thread that holds the value
    dev,        \* the AudioDevice: sample_rate, in_buffer, out_buffer
    rbuf,       \* the bytes held by the device's BufReader
    out,        \* the bytes of the latest write call on the device's writer
    dpc,        \* where the device is inside play
    flag,       \* the bool behind play's `state : &bool`
    reg         \* play's kept copy of *state: "none", "unloaded", "true", "false"

vars == <<build, handles, regions, counters, fault, last, writes, threads, owner,
          dev, rbuf, out, dpc, flag, reg>>

----------------------------------------------------------------------------
(* Bounds of the model. *)

MaxHandles == 3
MaxRegions == 2
MaxCounters == 2
MaxSize == 2
MaxIndex == 2
MaxWrites == 1
MaxCount == 4
MaxWrap == 1

Handles == 1 .. MaxHandles
RegionIds == 1 .. MaxRegions
CounterIds == 1 .. MaxCounters
Sizes == 1 .. MaxSize
Indices == 0 .. MaxIndex

Null == 0

BitDepths == {8, 16, 32}
OwnDepths == {8, 16}
ChannelCounts == {2}
Builds == {"debug", "release"}

----------------------------------------------------------------------------
(* AudioBuffer values and the heap. *)

\* AudioBuffer::default(): zero metadata, null pointers.
DefaultBuffer ==
    [channels |-> 0, bit_depth |-> 0, buffer_size |-> 0,
     data |-> Null, ref_count |-> Null]

NoHandle == [live |-> FALSE, buf |-> DefaultBuffer]

UnusedRegion == [state |-> "unused", len |-> 0, bytes |-> << >>]
UnusedCounter == [state |-> "unused", value |-> 0]

Zeroed(n) == [k \in 1 .. n |-> 0]

\* AudioBuffer::real_size
RealSize(b) == (b.bit_depth \div 8) * b.buffer_size

\* Cells the allocator may return: a cell freed earlier (so its address is
\* handed out again) or a cell never used; never-used cells are
\* interchangeable, so the first one stands for all of them.
Lowest(S) == IF S = {} THEN {} ELSE {CHOOSE x \in S : \A y \in S : x <= y}
FreeRegions(regs) ==
    {r \in RegionIds : regs[r].state = "freed"}
    \cup Lowest({r \in RegionIds : regs[r].state = "unused"})
FreeCounters(cnts) ==
    {c \in CounterIds : cnts[c].state = "freed"}
    \cup Lowest({c \in CounterIds : cnts[c].state = "unused"})

\* std::alloc::alloc_zeroed of `size` bytes at cell r.
AllocZeroed(regs, r, size) ==
    [regs EXCEPT ![r] = [state |-> "alloc", len |-> size, bytes |-> Zeroed(size)]]

\* std::alloc::dealloc(ptr, Layout::array::<u8>(size)): the faults it commits.
DeallocFaults(regs, ptr, size) ==
    IF ptr = Null THEN {"null_free"}
    ELSE (IF regs[ptr].state # "alloc" THEN {"double_free"} ELSE {})
         \cup (IF regs[ptr].state = "alloc" /\ regs[ptr].len # size
               THEN {"size_mismatch"} ELSE {})

\* std::alloc::dealloc: the heap afterwards.
Dealloc(regs, ptr) ==
    IF ptr = Null THEN regs
    ELSE [regs EXCEPT ![ptr] = [state |-> "freed", len |-> @.len, bytes |-> << >>]]

\* `last` after an operation that returns nothing the model observes.
NoLast == [op |-> "none", h |-> 0]

Threads == {1, 2}
IdleThread == [pc |-> "idle", buf |-> DefaultBuffer, tmp |-> 0]
IdleThreads == [t \in Threads |-> IdleThread]

LiveHandles == {h \in Handles : handles[h].live}

\* An invalid memory operation is undefined behaviour: nothing is modelled
\* of an execution after its first one.
Running == fault = {}

\* A new AudioBuffer value takes the first slot not in use.
FreeSlot == Lowest({h \in Handles : ~handles[h].live})

----------------------------------------------------------------------------
(* AudioBuffer::init, clone, drop, resize, clear. *)

\* The first value of a fresh counter (*ref_count = 1).
InitCount == 1

\* clone: *self.ref_count += 1
CloneCount(c) == c + 1

\* drop: the test `*self.ref_count == 1`
IsLastRefOffByOne(c) == c <= 2
IsLastRef(c) == c = 1

\* drop: *self.ref_count -= 1
DropCount(c) == c - 1

BufInit(h, channels, bit_depth, buffer_size) ==
    /\ Running
    /\ ~handles[h].live
    /\ \E c \in FreeCounters(counters), r \in FreeRegions(regions) :
          /\ counters' = [counters EXCEPT ![c] = [state |-> "alloc", value |-> InitCount]]
          /\ regions' = AllocZeroed(regions, r, (bit_depth \div 8) * buffer_size)
          /\ handles' = [handles EXCEPT ![h] =
                [live |-> TRUE,
                 buf |-> [channels |-> channels, bit_depth |-> bit_depth,
                          buffer_size |-> buffer_size, data |-> r, ref_count |-> c]]]
    /\ last' = NoLast
    /\ UNCHANGED <<dev, rbuf, out, dpc, flag, reg, threads, owner, build, fault, writes>>

\* Faults of reading or writing the counter cell through ref_count.
CounterFaults(cnts, rc) ==
    IF rc = Null THEN {"null_deref"}
    ELSE IF cnts[rc].state # "alloc" THEN {"use_after_free"} ELSE {}

Clone(src, dst) ==
    /\ Running
    /\ handles[src].live
    /\ ~handles[dst].live
    /\ handles[src].buf.ref_count # Null
    /\ LET b == handles[src].buf
           rc == b.ref_count
       IN /\ counters' = [counters EXCEPT ![rc].value = CloneCount(@)]
          /\ handles' = [handles EXCEPT ![dst] = [live |-> TRUE, buf |-> b]]
          /\ fault' = fault \cup CounterFaults(counters, rc)
    /\ last' = NoLast
    /\ UNCHANGED <<dev, rbuf, out, dpc, flag, reg, threads, owner, build, regions, writes>>

Drop(h) ==
    /\ Running
    /\ handles[h].live
    /\ handles[h].buf.ref_count # Null
    /\ LET b == handles[h].buf
           rc == b.ref_count
       IN IF IsLastRef(counters[rc].value)
          THEN /\ regions' = Dealloc(regions, b.data)
               /\ counters' = [counters EXCEPT ![rc].state = "freed"]
               /\ fault' = fault \cup CounterFaults(counters, rc)
                                 \cup DeallocFaults(regions, b.data, RealSize(b))
                                 \cup (IF counters[rc].state # "alloc"
                                       THEN {"double_free"} ELSE {})
          ELSE /\ counters' = [counters EXCEPT ![rc].value = DropCount(@)]
               /\ fault' = fault \cup CounterFaults(counters, rc)
               /\ UNCHANGED regions
    /\ handles' = [handles EXCEPT ![h] = NoHandle]
    /\ last' = NoLast
    /\ UNCHANGED <<dev, rbuf, out, dpc, flag, reg, threads, owner, build, writes>>

\* resize: free self.data with the old size, set buffer_size, allocate anew.
\* Neither the counter nor any other handle of the buffer is consulted.
Resize(h, buffer_size) ==
    /\ Running
    /\ handles[h].live
    /\ LET b == handles[h].buf
           freed == Dealloc(regions, b.data)
           nb == [b EXCEPT !.buffer_size = buffer_size]
       IN \E r \in FreeRegions(freed) :
             /\ regions' = AllocZeroed(freed, r, RealSize(nb))
             /\ handles' = [handles EXCEPT ![h].buf = [nb EXCEPT !.data = r]]
             /\ fault' = fault \cup DeallocFaults(regions, b.data, RealSize(b))
    /\ last' = [op |-> "resize", h |-> h]
    /\ UNCHANGED <<dev, rbuf, out, dpc, flag, reg, threads, owner, build, counters, writes>>

\* Faults of touching bytes [0, n) through pointer ptr.
AccessFaults(regs, ptr, offsets) ==
    IF offsets = {} THEN {}
    ELSE IF ptr = Null THEN {"null_deref"}
    ELSE (IF regs[ptr].state # "alloc" THEN {"use_after_free"} ELSE {})
         \cup (IF \E o \in offsets : o >= regs[ptr].len
               THEN {"out_of_bounds"} ELSE {})

\* clear: *data.offset(index) = 0 for index in 0..real_size
ClearBytes(bytes, size) ==
    [k \in 1 .. Len(bytes) |-> IF k - 1 < size THEN 0 ELSE bytes[k]]

Clear(h) ==
    /\ Running
    /\ handles[h].live
    /\ LET b == handles[h].buf
       IN /\ fault' = fault \cup AccessFaults(regions, b.data, 0 .. RealSize(b) - 1)
          /\ regions' = IF b.data = Null \/ regions[b.data].state # "alloc"
                        THEN regions
                        ELSE [regions EXCEPT ![b.data].bytes = ClearBytes(@, RealSize(b))]
    /\ last' = NoLast
    /\ UNCHANGED <<dev, rbuf, out, dpc, flag, reg, threads, owner, build, handles, counters, writes>>

----------------------------------------------------------------------------
(* The sample codec: AudioBuffer::read and AudioBuffer::write. *)

I8Max == 127
I16Max == 32767
I24Limit == 16777215
I32Max == 2147483647
I32Min == -2147483647 - 1

\* The `limit` chain of read and write.
Limit(bit_depth) ==
    IF bit_depth = 8 THEN I8Max
    ELSE IF bit_depth = 16 THEN I16Max
    ELSE IF bit_depth = 24 THEN I24Limit
    ELSE IF bit_depth = 32 THEN I32Max
    ELSE 0

\* Rust's integer `/`: the quotient truncated towards zero (b > 0).
TruncDiv(a, b) ==
    IF a >= 0 THEN a \div b
    ELSE IF a % b = 0 THEN a \div b ELSE (a \div b) + 1

\* A sample value is the rational num / den, den > 0.
\* write: restored = (data * limit as f64) as i32, a truncating cast.
Restored(v, limit) ==
    IF v.den = limit THEN v.num ELSE TruncDiv(v.num * limit, v.den)

\* read/write: real_index = index % self.buffer_size * bit_depth
RealIndexNoWrap(b, index) == index * (b.bit_depth \div 8)
RealIndex(b, index) == (index % b.buffer_size) * (b.bit_depth \div 8)

\* write: ((restored & (0xFF << bit * 8)) >> (bit * 8)) as u8
RestoredByte(restored, bit) == (restored \div (2 ^ (8 * bit))) % 256

\* write: the byte offset touched in round `bit` of the loop.
WriteOffset(real_index, bit) == real_index + bit

\* read: the byte offset touched in round `bit` of the loop.
ReadOffset(real_index, n, bit) == real_index + n - bit

\* write: the loop `for bit in 0..bit_depth`, `+=` on a u8.  In a build with
\* overflow checks the addition panics and the earlier rounds stay done.
RECURSIVE WriteLoop(_, _, _, _, _, _)
WriteLoop(bytes, real_index, n, restored, bit, checked) ==
    IF bit >= n THEN [bytes |-> bytes, panic |-> FALSE]
    ELSE LET off == WriteOffset(real_index, bit)
             sum == (IF off < Len(bytes) THEN bytes[off + 1] ELSE 0)
                    + RestoredByte(restored, bit)
         IN IF checked /\ sum > 255
            THEN [bytes |-> bytes, panic |-> TRUE]
            ELSE WriteLoop(IF off < Len(bytes)
                           THEN [bytes EXCEPT ![off + 1] = sum % 256]
                           ELSE bytes,
                           real_index, n, restored, bit + 1, checked)

\* AudioBuffer::write on the bytes of the region: result and offsets touched.
WriteSample(b, bytes, index, v, checked) ==
    IF b.buffer_size = 0
    THEN [bytes |-> bytes, panic |-> TRUE, offsets |-> {}]
    ELSE LET n == b.bit_depth \div 8
             ri == RealIndex(b, index)
             r == WriteLoop(bytes, ri, n, Restored(v, Limit(b.bit_depth)), 0, checked)
         IN [bytes |-> r.bytes, panic |-> r.panic,
             offsets |-> {WriteOffset(ri, bit) : bit \in 0 .. n - 1}]

\* A byte read through data.offset(off): past the region it is whatever
\* lies there, `ob`.
ByteAt(bytes, off, ob) == IF off < Len(bytes) THEN bytes[off + 1] ELSE ob

\* read: the bytes in the order the loop shifts them in (first = most
\* significant).
RawBytes(b, bytes, index, ob) ==
    LET n == b.bit_depth \div 8
    IN [k \in 1 .. n |-> ByteAt(bytes, ReadOffset(RealIndex(b, index), n, k - 1), ob)]

\* The u32 `data` is kept as its top bit and its low 31 bits.
RECURSIVE Assemble(_, _)
Assemble(raw, k) ==
    IF k = 0 THEN 0
    ELSE Assemble(raw, k - 1) * 256
         + (IF Len(raw) = 4 /\ k = 1 THEN raw[1] % 128 ELSE raw[k])
Low31(raw) == Assemble(raw, Len(raw))
TopBit(raw) == Len(raw) = 4 /\ raw[1] >= 128

\* read: (data - limit as u32) as i32, for data > limit.
DiffI32(raw, limit) ==
    IF TopBit(raw)
    THEN (IF Low31(raw) - limit = 0 THEN I32Min ELSE Low31(raw) + (I32Max - limit) + 1)
    ELSE Low31(raw) - limit

\* read: the last line.  The quotient is an integer before it is cast to
\* f64, so the result is a whole number; limit = 0 divides by zero.
Decode(raw, bit_depth) ==
    LET limit == Limit(bit_depth)
    IN IF limit = 0 THEN [panic |-> TRUE, value |-> 0]
       ELSE IF TopBit(raw) \/ Low31(raw) > limit
       THEN [panic |-> FALSE, value |-> 0 - TruncDiv(DiffI32(raw, limit), limit)]
       ELSE [panic |-> FALSE, value |-> Low31(raw) \div limit]

\* AudioBuffer::read on the bytes of the region.
ReadSample(b, bytes, index, ob) ==
    IF b.buffer_size = 0
    THEN [panic |-> TRUE, value |-> 0, offsets |-> {}]
    ELSE LET n == b.bit_depth \div 8
             d == Decode(RawBytes(b, bytes, index, ob), b.bit_depth)
         IN [panic |-> d.panic, value |-> d.value,
             offsets |-> {ReadOffset(RealIndex(b, index), n, bit) : bit \in 0 .. n - 1}]

\* The bytes a pointer can reach: none once the region is gone.
BytesOf(regs, ptr) ==
    IF ptr = Null \/ regs[ptr].state # "alloc" THEN << >> ELSE regs[ptr].bytes

OobBytes == {0, 255}

Write(h, index, v) ==
    /\ Running
    /\ handles[h].live
    /\ writes < MaxWrites
    /\ LET b == handles[h].buf
           r == WriteSample(b, BytesOf(regions, b.data), index, v, build = "debug")
       IN /\ regions' = IF b.data = Null \/ regions[b.data].state # "alloc"
                        THEN regions
                        ELSE [regions EXCEPT ![b.data].bytes = r.bytes]
          /\ fault' = fault \cup AccessFaults(regions, b.data, r.offsets)
          /\ last' = [op |-> "write", h |-> h, index |-> index, v |-> v,
                      panic |-> r.panic]
    /\ writes' = writes + 1
    /\ UNCHANGED <<dev, rbuf, out, dpc, flag, reg, threads, owner, build, handles, counters>>

Read(h, index) ==
    /\ Running
    /\ handles[h].live
    /\ \E ob \in OobBytes :
          LET b == handles[h].buf
              r == ReadSample(b, BytesOf(regions, b.data), index, ob)
          IN /\ fault' = fault \cup AccessFaults(regions, b.data, r.offsets)
             /\ last' = [op |-> "read", h |-> h, index |-> index, ob |-> ob,
                         panic |-> r.panic, value |-> r.value]
    /\ UNCHANGED <<dev, rbuf, out, dpc, flag, reg, threads, owner, build, handles, regions, counters, writes>>

----------------------------------------------------------------------------
(* clone and drop run by two threads.  AudioBuffer is declared Send and    *)
(* Sync, and the counter is a plain u32 behind a raw pointer: `+= 1` and   *)
(* `-= 1` are a load and a store, and another thread may run in between.   *)
(* The counter is kept as an integer modulo 2^32 around zero, so a         *)
(* wrapped 0 - 1 reads -1.                                                 *)

\* clone, first half of `*self.ref_count += 1`: load the counter.
CloneLoad(t, src) ==
    /\ Running
    /\ threads[t].pc = "idle"
    /\ handles[src].live /\ owner[src] = t
    /\ FreeSlot # {}
    /\ counters[handles[src].buf.ref_count].value < MaxCount
    /\ LET b == handles[src].buf
       IN /\ threads' = [threads EXCEPT ![t] =
                [pc |-> "clone_store", buf |-> b, tmp |-> counters[b.ref_count].value]]
          /\ fault' = fault \cup CounterFaults(counters, b.ref_count)
    /\ UNCHANGED <<dev, rbuf, out, dpc, flag, reg, build, handles, regions, counters, last, writes, owner>>

\* clone, second half: store the incremented value, then build the new handle.
CloneStore(t) ==
    /\ Running
    /\ threads[t].pc = "clone_store"
    /\ LET b == threads[t].buf
       IN \E dst \in FreeSlot :
             /\ counters' = [counters EXCEPT
                                ![b.ref_count].value = CloneCount(threads[t].tmp)]
             /\ handles' = [handles EXCEPT ![dst] = [live |-> TRUE, buf |-> b]]
             /\ owner' = [owner EXCEPT ![dst] = t]
             /\ fault' = fault \cup CounterFaults(counters, b.ref_count)
    /\ threads' = [threads EXCEPT ![t] = IdleThread]
    /\ UNCHANGED <<dev, rbuf, out, dpc, flag, reg, build, regions, last, writes>>

\* drop: the test `*self.ref_count == 1`.  The value is being dropped, so
\* the slot is given up here.
DropTest(t, h) ==
    /\ Running
    /\ threads[t].pc = "idle"
    /\ handles[h].live /\ owner[h] = t
    /\ counters[handles[h].buf.ref_count].value > 0 - MaxWrap
    /\ LET b == handles[h].buf
       IN /\ threads' = [threads EXCEPT ![t] =
                [pc |-> IF IsLastRef(counters[b.ref_count].value)
                        THEN "drop_free" ELSE "drop_load",
                 buf |-> b, tmp |-> 0]]
          /\ fault' = fault \cup CounterFaults(counters, b.ref_count)
    /\ handles' = [handles EXCEPT ![h] = NoHandle]
    /\ owner' = [owner EXCEPT ![h] = 0]
    /\ UNCHANGED <<dev, rbuf, out, dpc, flag, reg, build, regions, counters, last, writes>>

\* drop, last reference: free the region, then the counter.
DropFree(t) ==
    /\ Running
    /\ threads[t].pc = "drop_free"
    /\ LET b == threads[t].buf
       IN /\ regions' = Dealloc(regions, b.data)
          /\ counters' = [counters EXCEPT ![b.ref_count].state = "freed"]
          /\ fault' = fault \cup DeallocFaults(regions, b.data, RealSize(b))
                            \cup (IF counters[b.ref_count].state # "alloc"
                                  THEN {"double_free"} ELSE {})
    /\ threads' = [threads EXCEPT ![t] = IdleThread]
    /\ UNCHANGED <<dev, rbuf, out, dpc, flag, reg, build, handles, last, writes, owner>>

\* drop, first half of `*self.ref_count -= 1`: load the counter.
DropLoad(t) ==
    /\ Running
    /\ threads[t].pc = "drop_load"
    /\ LET b == threads[t].buf
       IN /\ threads' = [threads EXCEPT ![t].pc = "drop_store",
                                        ![t].tmp = counters[b.ref_count].value]
          /\ fault' = fault \cup CounterFaults(counters, b.ref_count)
    /\ UNCHANGED <<dev, rbuf, out, dpc, flag, reg, build, handles, regions, counters, last, writes, owner>>

\* drop, second half: store the decremented value.
DropStore(t) ==
    /\ Running
    /\ threads[t].pc = "drop_store"
    /\ LET b == threads[t].buf
       IN IF build = "debug" /\ threads[t].tmp = 0
          THEN /\ fault' = fault \cup CounterFaults(counters, b.ref_count)
                                 \cup {"overflow_panic"}
               /\ UNCHANGED counters
          ELSE /\ counters' = [counters EXCEPT
                                  ![b.ref_count].value = DropCount(threads[t].tmp)]
               /\ fault' = fault \cup CounterFaults(counters, b.ref_count)
    /\ threads' = [threads EXCEPT ![t] = IdleThread]
    /\ UNCHANGED <<dev, rbuf, out, dpc, flag, reg, build, handles, regions, last, writes, owner>>

----------------------------------------------------------------------------
(* AudioDevice. *)

\* AudioDevice::init: zero sample rate, two default buffers.
NewDevice ==
    [sample_rate |-> 0, in_buffer |-> DefaultBuffer, out_buffer |-> DefaultBuffer]

\* The device as the programs without one leave it.
NoDevice ==
    /\ dev = NewDevice
    /\ rbuf = << >>
    /\ out = << >>
    /\ dpc = "idle"
    /\ flag = FALSE
    /\ reg = "none"

Rate22050 == 22050
Rate24000 == 24000
FrameUnit == 32

\* The result of a u8 operation: wrapped, and whether it overflowed.
U8(x) == [value |-> x % 256, overflow |-> x < 0 \/ x > 255]

\* set_sample_rate: ((sample_rate / 22050) as u8 - 1) << 2 | 0b01
RateByte22050NoBias(rate) ==
    LET q == U8((rate \div Rate22050) % 256)
    IN [value |-> ((q.value * 4) % 256) + 1, overflow |-> q.overflow]
RateByte22050(rate) ==
    LET q == U8(((rate \div Rate22050) % 256) - 1)
    IN [value |-> ((q.value * 4) % 256) + 1, overflow |-> q.overflow]

\* set_sample_rate: ((sample_rate / 24000) as u8 + 31) << 2 | 0b01
RateByte24000(rate) ==
    LET q == U8(((rate \div Rate24000) % 256) + 31)
    IN [value |-> ((q.value * 4) % 256) + 1, overflow |-> q.overflow]

\* set_sample_rate: which branch takes the rate.
RateFamily(rate) ==
    IF rate % Rate22050 = 0 THEN "22050"
    ELSE IF rate % Rate24000 = 0 THEN "24000"
    ELSE "invalid"

SetSampleRate(rate) ==
    /\ Running
    /\ dpc = "idle"
    /\ LET fam == RateFamily(rate)
           byte == IF fam = "22050" THEN RateByte22050(rate) ELSE RateByte24000(rate)
       IN IF fam = "invalid"
          THEN /\ last' = [op |-> "set_sample_rate", h |-> 0, rate |-> rate,
                           panic |-> FALSE, sent |-> FALSE]
               /\ UNCHANGED <<dev, out, dpc>>
          ELSE IF build = "debug" /\ byte.overflow
          THEN /\ dev' = [dev EXCEPT !.sample_rate = rate]
               /\ dpc' = "panicked"
               /\ last' = [op |-> "set_sample_rate", h |-> 0, rate |-> rate,
                           panic |-> TRUE, sent |-> FALSE]
               /\ UNCHANGED out
          ELSE /\ dev' = [dev EXCEPT !.sample_rate = rate]
               /\ out' = <<byte.value>>
               /\ last' = [op |-> "set_sample_rate", h |-> 0, rate |-> rate,
                           panic |-> FALSE, sent |-> TRUE]
               /\ UNCHANGED dpc
    /\ UNCHANGED <<build, handles, regions, counters, fault, writes, threads, owner,
                   rbuf, flag, reg>>

\* read: the metadata carried by the first byte of the frame.
DecodeRateOneFamily(state_data) == (state_data + 1) * Rate22050
DecodeRate(state_data) ==
    IF state_data < 32 THEN (state_data + 1) * Rate22050
    ELSE (state_data - 31) * Rate24000

ApplyTag(d, byte) ==
    LET state_var == byte % 4
        state_data == byte \div 4
    IN IF state_var = 1 THEN [d EXCEPT !.sample_rate = DecodeRate(state_data)]
       ELSE IF state_var = 2
       THEN [d EXCEPT !.in_buffer.buffer_size = (state_data + 1) * FrameUnit]
       ELSE IF state_var = 3 THEN [d EXCEPT !.in_buffer.channels = state_data + 1]
       ELSE d

\* read: self.in_buffer.buffer_size * self.in_buffer.channels, the divisor.
DepthDivisor(b) == b.buffer_size * b.channels

\* read: 8 * (buffer.len() - 1) as u32 / divisor
DerivedDepth(len, divisor) == (8 * (len - 1)) \div divisor

\* read: the offsets the copy loop `for index in 1..len` writes to.
IngressOffset(index) == index
IngressOffsets(len) == {IngressOffset(index) : index \in 1 .. len - 1}

\* read: the copy loop on the bytes of the in-buffer's region.
IngressCopy(bytes, frame) ==
    [k \in 1 .. Len(bytes) |->
        IF \E index \in 1 .. Len(frame) - 1 : IngressOffset(index) = k - 1
        THEN frame[(CHOOSE index \in 1 .. Len(frame) - 1 : IngressOffset(index) = k - 1) + 1]
        ELSE bytes[k]]

\* BufReader::fill_buf: bytes already held are returned again (read never
\* consumes them); only an empty buffer is refilled from the transport.
FillBuf(held, chunk) == IF held = << >> THEN chunk ELSE held

\* AudioDevice::read, one ingress step.  `io` is what the transport does if
\* asked: deliver io.bytes, or fail.
Ingress(io) ==
    /\ Running
    /\ dpc = "ingress"
    /\ IF rbuf = << >> /\ ~io.ok
       THEN /\ dpc' = "panicked"
            /\ last' = [op |-> "ingress", h |-> 0, panic |-> TRUE, len |-> 0]
            /\ UNCHANGED <<dev, rbuf, regions, fault>>
       ELSE LET buffer == FillBuf(rbuf, io.bytes)
                len == Len(buffer)
                d1 == IF len = 0 THEN dev ELSE ApplyTag(dev, buffer[1])
                divisor == DepthDivisor(d1.in_buffer)
                d2 == [d1 EXCEPT !.in_buffer.bit_depth = DerivedDepth(len, divisor)]
                ptr == d1.in_buffer.data
            IN /\ rbuf' = buffer
               /\ IF len <= 1
                  THEN /\ dev' = d1
                       /\ dpc' = "egress"
                       /\ last' = [op |-> "ingress", h |-> 0, panic |-> FALSE, len |-> len]
                       /\ UNCHANGED <<regions, fault>>
                  ELSE IF divisor = 0
                  THEN /\ dev' = d1
                       /\ dpc' = "panicked"
                       /\ last' = [op |-> "ingress", h |-> 0, panic |-> TRUE, len |-> len]
                       /\ UNCHANGED <<regions, fault>>
                  ELSE /\ dev' = d2
                       /\ dpc' = "egress"
                       /\ last' = [op |-> "ingress", h |-> 0, panic |-> FALSE, len |-> len]
                       /\ fault' = fault \cup AccessFaults(regions, ptr, IngressOffsets(len))
                       /\ regions' = IF ptr = Null \/ regions[ptr].state # "alloc"
                                     THEN regions
                                     ELSE [regions EXCEPT
                                             ![ptr].bytes = IngressCopy(@, buffer)]
    /\ UNCHANGED <<build, handles, counters, writes, threads, owner, out, flag, reg>>

\* write: the frame is buffer_size + 1 bytes long.
EgressLen(b) == b.buffer_size + 1

\* write: data[index] = *out_buffer.data.offset(index) for index in 1..len
EgressOffsets(b) == 1 .. EgressLen(b) - 1
EgressFrame(b, bytes, ob) ==
    [k \in 1 .. EgressLen(b) |-> IF k = 1 THEN 0 ELSE ByteAt(bytes, k - 1, ob)]

\* AudioDevice::write, one egress step: emit the frame, clear the out-buffer.
Egress ==
    /\ Running
    /\ dpc = "egress"
    /\ \E ob \in OobBytes :
          LET b == dev.out_buffer
              bytes == BytesOf(regions, b.data)
          IN /\ out' = EgressFrame(b, bytes, ob)
             /\ fault' = fault \cup AccessFaults(regions, b.data, EgressOffsets(b))
                               \cup AccessFaults(regions, b.data, 0 .. RealSize(b) - 1)
             /\ regions' = IF b.data = Null \/ regions[b.data].state # "alloc"
                           THEN regions
                           ELSE [regions EXCEPT ![b.data].bytes = ClearBytes(@, RealSize(b))]
    /\ dpc' = "pace"
    /\ last' = [op |-> "egress", h |-> 0]
    /\ UNCHANGED <<build, handles, counters, writes, threads, owner, dev, rbuf, flag, reg>>

\* play is entered with `state` pointing at a bool of value f.  The borrow
\* is shared and immutable, so a build may load *state at the first test and
\* keep the value (`keeps`), or load it at every test.
PlayCall(f, keeps) ==
    /\ Running
    /\ dpc = "idle"
    /\ dpc' = "top"
    /\ flag' = f
    /\ reg' = IF keeps THEN "unloaded" ELSE "none"
    /\ last' = [op |-> "play", h |-> 0, state |-> f]
    /\ UNCHANGED <<build, handles, regions, counters, fault, writes, threads, owner,
                   dev, rbuf, out>>

\* The bool is cleared from outside while play runs.
StopRaised ==
    /\ Running
    /\ dpc \in {"top", "ingress", "egress", "pace", "sleep"}
    /\ flag
    /\ flag' = FALSE
    /\ UNCHANGED <<build, handles, regions, counters, fault, last, writes, threads, owner,
                   dev, rbuf, out, dpc, reg>>

\* play: what `while *state` tests.
StateSeen == IF reg \in {"none", "unloaded"} THEN flag ELSE reg = "true"

LoopTop ==
    /\ Running
    /\ dpc = "top"
    /\ dpc' = IF StateSeen THEN "ingress" ELSE "idle"
    /\ reg' = IF reg = "none" THEN "none" ELSE IF StateSeen THEN "true" ELSE "false"
    /\ last' = [op |-> "loop_top", h |-> 0, entered |-> StateSeen]
    /\ UNCHANGED <<build, handles, regions, counters, fault, writes, threads, owner,
                   dev, rbuf, out, flag>>

\* play: Duration::from_secs_f64(buffer_size as f64 / sample_rate as f64)
\* panics on NaN and on infinity, i.e. whenever sample_rate is 0.
DurationPanics(d) == d.sample_rate = 0

\* Time is counted in ticks of one sample period, 1 / sample_rate seconds:
\* the duration buffer_size / sample_rate is then buffer_size ticks.
TargetTicks(d) == d.in_buffer.buffer_size

\* play: `if elapsed_time >= duration { continue; }`
IsLateStrict(elapsed, target) == elapsed > target
IsLate(elapsed, target) == elapsed >= target

\* play: the argument of sleep, duration - elapsed_time.
SleepTicks(elapsed, target) == target - elapsed

\* play: the pacing step, `elapsed` ticks after start_time was taken.
Pace(elapsed) ==
    /\ Running
    /\ dpc = "pace"
    /\ IF DurationPanics(dev)
       THEN /\ dpc' = "panicked"
            /\ last' = [op |-> "pace", h |-> 0, panic |-> TRUE]
       ELSE LET target == TargetTicks(dev)
                late == IsLate(elapsed, target)
            IN /\ dpc' = IF late THEN "top" ELSE "sleep"
               /\ last' = [op |-> "pace", h |-> 0, panic |-> FALSE,
                           elapsed |-> elapsed,
                           sleep |-> IF late THEN 0 ELSE SleepTicks(elapsed, target)]
    /\ UNCHANGED <<build, handles, regions, counters, fault, writes, threads, owner,
                   dev, rbuf, out, flag, reg>>

\* play: std::thread::sleep(duration - elapsed_time) returns, `over` ticks
\* after the time asked for (sleep lasts at least that long).
Wake(over) ==
    /\ Running
    /\ dpc = "sleep"
    /\ dpc' = "top"
    /\ last' = [op |-> "wake", h |-> 0, elapsed |-> last.elapsed,
                slept |-> last.sleep + over]
    /\ UNCHANGED <<build, handles, regions, counters, fault, writes, threads, owner,
                   dev, rbuf, out, flag, reg>>

\* AudioBuffer::drop of one buffer value on a heap: the heap afterwards and
\* the faults committed.  The counter is read first; through a null or
\* freed ref_count that read is already a fault.
BufferDrop(regs, cnts, b) ==
    LET rc == b.ref_count
    IN IF CounterFaults(cnts, rc) # {}
       THEN [regions |-> regs, counters |-> cnts, fault |-> CounterFaults(cnts, rc)]
       ELSE IF IsLastRef(cnts[rc].value)
       THEN [regions |-> Dealloc(regs, b.data),
             counters |-> [cnts EXCEPT ![rc].state = "freed"],
             fault |-> DeallocFaults(regs, b.data, RealSize(b))]
       ELSE [regions |-> regs,
             counters |-> [cnts EXCEPT ![rc].value = DropCount(@)],
             fault |-> {}]

\* The device goes out of scope, by the end of its owner or by the unwinding
\* of a panic: its fields are dropped in declaration order, in_buffer and
\* then out_buffer, each by AudioBuffer::drop.
DeviceDrop ==
    /\ Running
    /\ dpc \in {"idle", "panicked"}
    /\ LET first == BufferDrop(regions, counters, dev.in_buffer)
           second == BufferDrop(first.regions, first.counters, dev.out_buffer)
           done == IF first.fault # {} THEN first
                   ELSE [second EXCEPT !.fault = @ \cup first.fault]
       IN /\ regions' = done.regions
          /\ counters' = done.counters
          /\ fault' = fault \cup done.fault
    /\ dpc' = "dropped"
    /\ last' = [op |-> "device_drop", h |-> 0, from |-> dpc]
    /\ UNCHANGED <<build, handles, writes, threads, owner, dev, rbuf, out, flag, reg>>

----------------------------------------------------------------------------
(* Specifications. *)

\* Sample values written by the programs below.
Half == [num |-> 1, den |-> 2]
Samples(bit_depth) ==
    LET l == Limit(bit_depth)
    IN {[num |-> k, den |-> l] : k \in {0 - l, -1, 0, 1, (l \div 2) + 1, l}}
       \cup {Half}

EmptyHeap ==
    /\ build \in Builds
    /\ handles = [h \in Handles |-> NoHandle]
    /\ regions = [r \in RegionIds |-> UnusedRegion]
    /\ counters = [c \in CounterIds |-> UnusedCounter]
    /\ fault = {}
    /\ last = NoLast
    /\ writes = 0
    /\ threads = IdleThreads
    /\ owner = [h \in Handles |-> 0]
    /\ NoDevice

\* Any program over AudioBuffer values: init, clone, resize, clear, write, drop.
Init == EmptyHeap

Next ==
    \/ \E h \in FreeSlot, ch \in ChannelCounts, bd \in OwnDepths, n \in Sizes :
          BufInit(h, ch, bd, n)
    \/ \E src \in Handles, dst \in FreeSlot : Clone(src, dst)
    \/ \E h \in Handles, n \in Sizes : Resize(h, n)
    \/ \E h \in Handles : Clear(h)
    \/ \E h \in Handles, i \in Sizes : Write(h, i, Half)
    \/ \E h \in Handles : Drop(h)

Spec == Init /\ [][Next]_vars

\* Programs that never resize: init, clone and drop only.
NextOwn ==
    \/ \E h \in FreeSlot, ch \in ChannelCounts, bd \in BitDepths, n \in Sizes :
          BufInit(h, ch, bd, n)
    \/ \E src \in Handles, dst \in FreeSlot : Clone(src, dst)
    \/ \E h \in Handles : Drop(h)

SpecOwn == Init /\ [][NextOwn]_vars

\* One unshared buffer, created by init, under read, write, resize and clear.
InitCodec ==
    /\ build \in Builds
    /\ \E ch \in ChannelCounts, bd \in BitDepths, n \in Sizes :
          /\ handles = [h \in Handles |->
                IF h = 1
                THEN [live |-> TRUE,
                      buf |-> [channels |-> ch, bit_depth |-> bd, buffer_size |-> n,
                               data |-> 1, ref_count |-> 1]]
                ELSE NoHandle]
          /\ regions = AllocZeroed([r \in RegionIds |-> UnusedRegion], 1, (bd \div 8) * n)
    /\ counters = [c \in CounterIds |->
          IF c = 1 THEN [state |-> "alloc", value |-> InitCount] ELSE UnusedCounter]
    /\ fault = {}
    /\ last = NoLast
    /\ writes = 0
    /\ threads = IdleThreads
    /\ owner = [h \in Handles |-> 0]
    /\ NoDevice

NextCodec ==
    \/ \E i \in Indices, v \in Samples(handles[1].buf.bit_depth) : Write(1, i, v)
    \/ \E i \in Indices : Read(1, i)
    \/ \E n \in Sizes : Resize(1, n)
    \/ Clear(1)

SpecCodec == InitCodec /\ [][NextCodec]_vars

----------------------------------------------------------------------------
(* Shared ownership. *)

Sharers(c) == {h \in LiveHandles : handles[h].buf.ref_count = c}
Users(r) == {h \in LiveHandles : handles[h].buf.data = r}

\* C1: with init, clone and drop only, a region and its counter are freed
\* exactly once, by the drop of the last handle: no invalid free or access
\* has happened, a cell is allocated exactly while a live handle refers to
\* it, and the counter equals the number of live handles sharing it.
C1_FreedOnceAtLastDrop ==
    /\ fault = {}
    /\ \A r \in RegionIds : regions[r].state = "alloc" <=> Users(r) # {}
    /\ \A c \in CounterIds : counters[c].state = "alloc" <=> Sharers(c) # {}
    /\ \A c \in CounterIds :
          counters[c].state = "alloc" => counters[c].value = Cardinality(Sharers(c))

\* A clone outlives the handle it was cloned from: the only buffer ever
\* created is still allocated, held by the second slot alone.
C1_Witness ==
    /\ ~handles[1].live
    /\ handles[2].live
    /\ counters[2].state = "unused"
    /\ counters[handles[2].buf.ref_count].value = 1
    /\ regions[handles[2].buf.data].state = "alloc"

\* C2: while a handle is live its counter is allocated and >= 1, its region
\* is allocated, and the handles sharing its counter have the same region.
C2_SharedBackingLive ==
    \A h \in LiveHandles :
       LET b == handles[h].buf
       IN /\ counters[b.ref_count].state = "alloc"
          /\ counters[b.ref_count].value >= 1
          /\ regions[b.data].state = "alloc"
          /\ \A g \in Sharers(b.ref_count) : handles[g].buf.data = b.data

\* C3: the region a live handle points to, when allocated, is as long as the
\* handle's metadata says (bit_depth / 8 * buffer_size), and no region was
\* freed with a size other than the one it was allocated with.
C3_BackingLength ==
    /\ "size_mismatch" \notin fault
    /\ \A h \in LiveHandles :
          LET b == handles[h].buf
          IN regions[b.data].state = "alloc" => regions[b.data].len = RealSize(b)

\* Two threads, each holding one handle of the same buffer, clone and drop.
InitConc ==
    /\ build \in Builds
    /\ \E bd \in BitDepths, n \in Sizes :
          /\ handles = [h \in Handles |->
                IF h \in Threads
                THEN [live |-> TRUE,
                      buf |-> [channels |-> 2, bit_depth |-> bd, buffer_size |-> n,
                               data |-> 1, ref_count |-> 1]]
                ELSE NoHandle]
          /\ regions = AllocZeroed([r \in RegionIds |-> UnusedRegion], 1, (bd \div 8) * n)
    /\ counters = [c \in CounterIds |->
          IF c = 1 THEN [state |-> "alloc", value |-> Cardinality(Threads)]
          ELSE UnusedCounter]
    /\ fault = {}
    /\ last = NoLast
    /\ writes = 0
    /\ threads = IdleThreads
    /\ owner = [h \in Handles |-> IF h \in Threads THEN h ELSE 0]
    /\ NoDevice

NextConc ==
    \/ \E t \in Threads, src \in Handles : CloneLoad(t, src)
    \/ \E t \in Threads : CloneStore(t)
    \/ \E t \in Threads, h \in Handles : DropTest(t, h)
    \/ \E t \in Threads : DropFree(t)
    \/ \E t \in Threads : DropLoad(t)
    \/ \E t \in Threads : DropStore(t)

SpecConc == InitConc /\ [][NextConc]_vars

Quiescent == \A t \in Threads : threads[t].pc = "idle"

\* C4: under two threads the counter equals the number of live handles
\* whenever no clone or drop is in progress, and the backing is freed
\* exactly once, only after the last handle is dropped.
C4_ThreadSafeCounting ==
    /\ fault = {}
    /\ Quiescent =>
          /\ \A c \in CounterIds :
                counters[c].state = "alloc" => counters[c].value = Cardinality(Sharers(c))
          /\ \A r \in RegionIds : regions[r].state = "alloc" <=> Users(r) # {}

----------------------------------------------------------------------------
(* The codec on one unshared buffer. *)

TheBuf == handles[1].buf
TheBytes == BytesOf(regions, TheBuf.data)

\* |k / l - q| <= 1 / l for a whole number q, without leaving 32 bits.
WithinOneStep(k, l, q) ==
    IF q = 0 THEN k >= -1 /\ k <= 1
    ELSE IF q = 1 THEN l - k <= 1
    ELSE IF q = -1 THEN k + l <= 1
    ELSE FALSE

\* C5: on an all-zero buffer, after write(i, k / limit) with i < sample_count,
\* read(i) returns a value within 1 / limit of k / limit.
C5_RoundTrip ==
    (/\ last.op = "write"
     /\ writes = 1
     /\ last.index < TheBuf.buffer_size
     /\ last.v.den = Limit(TheBuf.bit_depth))
    => \A ob \in OobBytes :
          LET r == ReadSample(TheBuf, TheBytes, last.index, ob)
          IN /\ ~r.panic
             /\ WithinOneStep(last.v.num, Limit(TheBuf.bit_depth), r.value)

\* C6: right after resize(n), every read(i) returns 0.0 and touches no byte
\* outside the new backing.
C6_ResizeDiscards ==
    last.op = "resize"
    => \A i \in Indices, ob \in OobBytes :
          LET r == ReadSample(TheBuf, TheBytes, i, ob)
          IN /\ ~r.panic
             /\ r.value = 0
             /\ \A o \in r.offsets : o < regions[TheBuf.data].len

\* C7: read(index) returns what read(index mod sample_count) returns, and
\* write(index, v) does to the backing what write(index mod sample_count, v)
\* does; an index >= sample_count is no error of its own.
C7_ReadWraps ==
    last.op = "read"
    => LET r == ReadSample(TheBuf, TheBytes, last.index % TheBuf.buffer_size, last.ob)
       IN /\ last.value = r.value
          /\ last.panic = r.panic
          /\ ~last.panic
C7_WriteWraps ==
    (last'.op = "write" /\ writes' = writes + 1)
    => LET r == WriteSample(TheBuf, TheBytes, last'.index % TheBuf.buffer_size,
                            last'.v, build = "debug")
       IN /\ BytesOf(regions', TheBuf.data) = r.bytes
          /\ last'.panic = r.panic
C7_WrapAround == []C7_ReadWraps /\ [][C7_WriteWraps]_vars

\* A read past the sample count that found the sample written at the
\* wrapped position.
C7_Witness ==
    /\ last.op = "read"
    /\ last.index >= TheBuf.buffer_size
    /\ last.value # 0
    /\ writes > 0

----------------------------------------------------------------------------
(* The device: set_sample_rate and play over a transport. *)

RateSteps == {0, 1, 2, 32, 33, 256}
Rates == {1000} \cup {k * Rate22050 : k \in RateSteps} \cup {k * Rate24000 : k \in RateSteps}
TagValues == {0, 1, 32, 63}
FirstBytes == {tag + 4 * value : tag \in 0 .. 3, value \in TagValues}
Payloads == {<< >>, <<7>>, <<7, 9>>}
Chunks == {<< >>} \cup {<<byte>> \o payload : byte \in FirstBytes, payload \in Payloads}

ElapsedTicks == {0, 31, 32, 33}
Oversleep == {0, 1}

Transport ==
    {[ok |-> TRUE, bytes |-> chunk] : chunk \in Chunks} \cup {[ok |-> FALSE, bytes |-> << >>]}

InitDev ==
    /\ build \in Builds
    /\ handles = [h \in Handles |-> NoHandle]
    /\ regions = [r \in RegionIds |-> UnusedRegion]
    /\ counters = [c \in CounterIds |-> UnusedCounter]
    /\ fault = {}
    /\ last = NoLast
    /\ writes = 0
    /\ threads = IdleThreads
    /\ owner = [h \in Handles |-> 0]
    /\ NoDevice

NextDev ==
    \/ \E rate \in Rates : SetSampleRate(rate)
    \/ \E f \in BOOLEAN, keeps \in BOOLEAN : PlayCall(f, keeps)
    \/ StopRaised
    \/ LoopTop
    \/ \E io \in Transport : Ingress(io)
    \/ Egress
    \/ \E elapsed \in ElapsedTicks : Pace(elapsed)
    \/ \E over \in Oversleep : Wake(over)
    \/ DeviceDrop

SpecDev == InitDev /\ [][NextDev]_vars

\* AudioDevice::write taken as a method: self.out_buffer ranges over the
\* buffers AudioBuffer::init produces, holding any bytes.  No public
\* operation of the device gives out_buffer a backing, so under SpecDev it
\* stays AudioBuffer::default() and every frame is the single byte 00.
PayloadBytes == {7, 9}

InitEgress ==
    /\ build \in Builds
    /\ handles = [h \in Handles |-> NoHandle]
    /\ counters = [c \in CounterIds |->
          IF c = 1 THEN [state |-> "alloc", value |-> InitCount] ELSE UnusedCounter]
    /\ fault = {}
    /\ last = NoLast
    /\ writes = 0
    /\ threads = IdleThreads
    /\ owner = [h \in Handles |-> 0]
    /\ \E ch \in ChannelCounts, bd \in BitDepths, n \in Sizes :
          /\ dev = [sample_rate |-> 0, in_buffer |-> DefaultBuffer,
                    out_buffer |-> [channels |-> ch, bit_depth |-> bd,
                                    buffer_size |-> n, data |-> 1, ref_count |-> 1]]
          /\ \E bytes \in [1 .. (bd \div 8) * n -> PayloadBytes] :
                regions = [r \in RegionIds |->
                      IF r = 1
                      THEN [state |-> "alloc", len |-> (bd \div 8) * n, bytes |-> bytes]
                      ELSE UnusedRegion]
    /\ rbuf = << >>
    /\ out = << >>
    /\ dpc = "egress"
    /\ flag = TRUE
    /\ reg = "true"

NextEgress == Egress

SpecEgress == InitEgress /\ [][NextEgress]_vars

\* C8: an egress step emits 1 + L bytes, L = bit_depth / 8 * sample_count of
\* the out-buffer: a first byte of tag 00, then backing bytes 0 .. L-1 as
\* they were; it reads nothing outside the backing and leaves it all zero.
C8_EgressStep ==
    (dpc = "egress" /\ dpc' = "pace")
    => LET b == dev.out_buffer
           L == RealSize(b)
           pre == BytesOf(regions, b.data)
           post == BytesOf(regions', b.data)
       IN /\ Len(out') = 1 + L
          /\ out'[1] % 4 = 0
          /\ \A k \in 0 .. L - 1 : k < Len(pre) /\ out'[k + 2] = pre[k + 1]
          /\ fault' = fault
          /\ \A k \in 1 .. Len(post) : post[k] = 0
C9_PayloadStored ==
    (last.op = "ingress" /\ last.len > 1)
    => /\ ~last.panic
       /\ fault = {}
       /\ LET bytes == BytesOf(regions, dev.in_buffer.data)
          IN \A k \in 0 .. last.len - 2 : k < Len(bytes) /\ bytes[k + 1] = rbuf[k + 2]

\* C10: at the loop-top test with the stop condition raised (the bool is
\* false, from the start or since some point of the loop), play returns and
\* starts no further ingress or egress step.
C10_StopStep == (dpc = "top" /\ ~flag /\ dpc' # dpc) => dpc' = "idle"
C10_CooperativeStop == [][C10_StopStep]_vars

\* The rates that decompose into the wire encoding: a 6-bit value of
\* rate/22050 - 1 in 0 .. 31, or of rate/24000 + 31 in 32 .. 63.
InFamily22050(r) == r > 0 /\ r % 22050 = 0 /\ (r \div 22050) - 1 < 32
InFamily24000(r) == r > 0 /\ r % 24000 = 0 /\ (r \div 24000) + 31 < 64
Encodable(r) == InFamily22050(r) \/ InFamily24000(r)

\* C11: set_sample_rate(r) on an encodable rate sets sample_rate to r and
\* emits exactly one byte, low 2 bits 01, upper 6 bits r/22050 - 1 for the
\* 22050 family and otherwise r/24000 + 31 for the 24000 family.
C11_RateEncoding ==
    (last.op = "set_sample_rate" /\ Encodable(last.rate))
    => /\ ~last.panic
       /\ last.sent
       /\ dev.sample_rate = last.rate
       /\ Len(out) = 1
       /\ out[1] % 4 = 1
       /\ out[1] \div 4 = IF InFamily22050(last.rate)
                           THEN (last.rate \div 22050) - 1
                           ELSE (last.rate \div 24000) + 31

\* set_sample_rate(44100) has emitted the byte of value 1, tag 01.
C11_Witness ==
    /\ last.op = "set_sample_rate"
    /\ last.rate = 44100
    /\ last.sent
    /\ out = <<5>>

\* C12: set_sample_rate on a rate outside the wire encoding completes
\* without aborting, leaves every device field unchanged and writes no byte.
C12_InvalidStep ==
    (dpc = "idle" /\ last'.op = "set_sample_rate" /\ ~Encodable(last'.rate))
    => /\ ~last'.panic
       /\ ~last'.sent
       /\ dpc' = "idle"
       /\ dev' = dev
       /\ out' = out
C12_InvalidRateRejected == [][C12_InvalidStep]_vars

\* C13: the byte emitted for an accepted rate r, received as a one-byte
\* frame by the ingress step of a device, is decoded with tag 01 and sets
\* that device's sample_rate to r.
C13_RateRoundTrip ==
    (last.op = "set_sample_rate" /\ last.sent)
    => /\ out[1] % 4 = 1
       /\ ApplyTag(NewDevice, out[1]).sample_rate = last.rate

\* C14: an ingress step that finds no inbound bytes leaves the device and
\* the in-buffer's backing unchanged, and the iteration it belongs to goes
\* on through egress and pacing back to the loop-top without aborting.
C14_IdleIngress ==
    (dpc = "ingress" /\ dpc' = "egress" /\ rbuf' = << >>)
    => dev' = dev /\ regions' = regions
C14_IdlePace ==
    (last.op = "pace" /\ rbuf = << >>)
    => ~last.panic /\ dpc \in {"top", "sleep"}
C14_Underrun == [][C14_IdleIngress]_vars /\ []C14_IdlePace

----------------------------------------------------------------------------
(* Bulk access: read_slice and write_slice. *)

\* write_slice: `for index in 0..self.buffer_size { self.write(index, ..) }`
\* from `index` on; a panic of write ends the loop.
RECURSIVE WriteSliceLoop(_, _, _, _, _, _)
WriteSliceLoop(b, bytes, buffer, index, visited, checked) ==
    IF index >= b.buffer_size
    THEN [bytes |-> bytes, panic |-> FALSE, visited |-> visited, offsets |-> {}]
    ELSE LET w == WriteSample(b, bytes, index, buffer[index + 1], checked)
         IN IF w.panic
            THEN [bytes |-> w.bytes, panic |-> TRUE,
                  visited |-> Append(visited, index), offsets |-> w.offsets]
            ELSE LET rest == WriteSliceLoop(b, w.bytes, buffer, index + 1,
                                            Append(visited, index), checked)
                 IN [rest EXCEPT !.offsets = @ \cup w.offsets]

\* AudioBuffer::write_slice on the bytes of the region.
WriteSliceResult(b, bytes, buffer, checked) ==
    IF Len(buffer) # b.buffer_size
    THEN [bytes |-> bytes, panic |-> FALSE, visited |-> << >>, offsets |-> {}]
    ELSE WriteSliceLoop(b, bytes, buffer, 0, << >>, checked)

\* read_slice: `for index in 0..self.buffer_size { buffer[index] = self.read(index) }`
RECURSIVE ReadSliceLoop(_, _, _, _, _, _)
ReadSliceLoop(b, bytes, buffer, index, visited, ob) ==
    IF index >= b.buffer_size
    THEN [buffer |-> buffer, panic |-> FALSE, visited |-> visited, offsets |-> {}]
    ELSE LET r == ReadSample(b, bytes, index, ob)
         IN IF r.panic
            THEN [buffer |-> buffer, panic |-> TRUE,
                  visited |-> Append(visited, index), offsets |-> r.offsets]
            ELSE LET rest == ReadSliceLoop(b, bytes,
                                           [buffer EXCEPT ![index + 1] = r.value],
                                           index + 1, Append(visited, index), ob)
                 IN [rest EXCEPT !.offsets = @ \cup r.offsets]

\* AudioBuffer::read_slice on the bytes of the region.
ReadSliceResult(b, bytes, buffer, ob) ==
    IF Len(buffer) # b.buffer_size
    THEN [buffer |-> buffer, panic |-> FALSE, visited |-> << >>, offsets |-> {}]
    ELSE ReadSliceLoop(b, bytes, buffer, 0, << >>, ob)

WriteSlice(h, buffer) ==
    /\ Running
    /\ handles[h].live
    /\ writes <= MaxWrites
    /\ LET b == handles[h].buf
           r == WriteSliceResult(b, BytesOf(regions, b.data), buffer, build = "debug")
       IN /\ regions' = IF b.data = Null \/ regions[b.data].state # "alloc"
                        THEN regions
                        ELSE [regions EXCEPT ![b.data].bytes = r.bytes]
          /\ fault' = fault \cup AccessFaults(regions, b.data, r.offsets)
          /\ last' = [op |-> "write_slice", h |-> h, buffer |-> buffer,
                      panic |-> r.panic, visited |-> r.visited]
    /\ writes' = writes + 1
    /\ UNCHANGED <<dev, rbuf, out, dpc, flag, reg, threads, owner, build, handles, counters>>

ReadSlice(h, buffer) ==
    /\ Running
    /\ handles[h].live
    /\ \E ob \in OobBytes :
          LET b == handles[h].buf
              r == ReadSliceResult(b, BytesOf(regions, b.data), buffer, ob)
          IN /\ fault' = fault \cup AccessFaults(regions, b.data, r.offsets)
             /\ last' = [op |-> "read_slice", h |-> h, buffer |-> buffer,
                         after |-> r.buffer, panic |-> r.panic, visited |-> r.visited]
    /\ UNCHANGED <<dev, rbuf, out, dpc, flag, reg, threads, owner, build, handles, regions, counters, writes>>

\* Slices handed to the two calls: shorter than, as long as and longer than
\* the buffer.
MinusOne == [num |-> -1, den |-> 1]
SliceLengths == 0 .. MaxSize + 1
WriteSlices == UNION {[1 .. n -> {Half, MinusOne}] : n \in SliceLengths}
ReadSlices == {[k \in 1 .. n |-> 9] : n \in SliceLengths}

NextSlice ==
    \/ \E buffer \in WriteSlices : WriteSlice(1, buffer)
    \/ \E buffer \in ReadSlices : ReadSlice(1, buffer)

SpecSlice == InitCodec /\ [][NextSlice]_vars

\* C15: with a slice whose length differs from sample_count, write_slice
\* changes no backing byte and read_slice no slice element, and neither
\* reports an error; with a slice of length sample_count each processes the
\* indices 0 .. sample_count - 1 once each, in increasing order.
C15_WriteSliceStep ==
    (last'.op = "write_slice" /\ writes' # writes)
    => LET b == handles[last'.h].buf
       IN IF Len(last'.buffer) # b.buffer_size
          THEN regions' = regions /\ fault' = fault /\ ~last'.panic
          ELSE last'.visited = [k \in 1 .. b.buffer_size |-> k - 1]
C15_ReadSliceState ==
    (last.op = "read_slice")
    => LET b == handles[last.h].buf
       IN IF Len(last.buffer) # b.buffer_size
          THEN last.after = last.buffer /\ ~last.panic
          ELSE last.visited = [k \in 1 .. b.buffer_size |-> k - 1]
C15_BulkShape == [][C15_WriteSliceStep]_vars /\ []C15_ReadSliceState

----------------------------------------------------------------------------
(* Pacing of the play loop. *)

\* C16: an iteration with sample_rate > 0 lasts at least the target period
\* sample_count / sample_rate (sample_count ticks): when ingress and egress
\* took less, the loop sleeps exactly the remainder; when they took at least
\* the target it goes to the next iteration without sleeping; and every
\* iteration runs ingress, then egress, then pacing.
C16_PaceState ==
    /\ (last.op = "pace" /\ dev.sample_rate > 0)
       => /\ ~last.panic
          /\ IF last.elapsed < dev.in_buffer.buffer_size
             THEN dpc = "sleep" /\ last.sleep = dev.in_buffer.buffer_size - last.elapsed
             ELSE dpc = "top" /\ last.sleep = 0
    /\ (last.op = "wake" /\ dev.sample_rate > 0)
       => last.elapsed + last.slept >= dev.in_buffer.buffer_size
C16_Order ==
    /\ (dpc = "top" /\ dpc' \notin {"top", "idle"}) => dpc' = "ingress"
    /\ (dpc = "ingress" /\ dpc' \notin {"ingress", "panicked"}) => dpc' = "egress"
    /\ (dpc = "egress" /\ dpc' # "egress") => dpc' = "pace"
    /\ (dpc = "pace" /\ dpc' \notin {"pace", "panicked", "sleep"}) => dpc' = "top"
    /\ (dpc = "sleep" /\ dpc' # "sleep") => dpc' = "top"
C16_Pacing == []C16_PaceState /\ [][C16_Order]_vars

\* An iteration of 32 samples took 31 ticks and then slept the remainder.
C16_Witness ==
    /\ last.op = "wake"
    /\ dev.sample_rate > 0
    /\ dev.in_buffer.buffer_size = 32
    /\ last.elapsed = 31
    /\ last.slept = 1

----------------------------------------------------------------------------
(* The bytes of one sample. *)

\* The byte offsets of sample i of buffer b: [i * n, (i + 1) * n), n = bit_depth / 8.
SampleRange(b, i) ==
    (i * (b.bit_depth \div 8)) .. ((i + 1) * (b.bit_depth \div 8) - 1)

\* C17: for i < sample_count, read(i) reads only bytes of sample i and
\* write(i, v) modifies only bytes of sample i; neither touches a byte of
\* another sample or a byte outside the backing region.
C17_ReadRange ==
    (last.op = "read" /\ last.index < TheBuf.buffer_size)
    => /\ ReadSample(TheBuf, TheBytes, last.index, last.ob).offsets
             \subseteq SampleRange(TheBuf, last.index)
       /\ fault = {}
C17_WriteRange ==
    (last'.op = "write" /\ writes' = writes + 1 /\ last'.index < TheBuf.buffer_size)
    => /\ \A k \in 1 .. Len(TheBytes) :
             (k - 1) \notin SampleRange(TheBuf, last'.index)
             => BytesOf(regions', TheBuf.data)[k] = TheBytes[k]
       /\ fault' = fault
C17_SampleByteRange == []C17_ReadRange /\ [][C17_WriteRange]_vars

----------------------------------------------------------------------------
(* The end of a device. *)

\* C18: destroying a device made by AudioDevice::init, whatever was done
\* with it in between, dereferences no null counter or data pointer and
\* frees no region that was not allocated.
C18_DeviceDropSafe ==
    last.op = "device_drop" => fault = {}

----------------------------------------------------------------------------
(* Ingress: the first byte and the bit depth. *)

\* C19: an ingress step on a frame longer than one byte completes without
\* aborting, and afterwards the in-buffer's bit_depth is
\* 8 * payload_len / (sample_count * channels), with the sample count and
\* channel count as the frame's own first byte left them.
C19_DepthRederived ==
    (last.op = "ingress" /\ last.len > 1)
    => /\ ~last.panic
       /\ dpc # "panicked"
       /\ dev.in_buffer.buffer_size * dev.in_buffer.channels # 0
       /\ dev.in_buffer.bit_depth
             = (8 * (last.len - 1)) \div (dev.in_buffer.buffer_size * dev.in_buffer.channels)

\* C20: an ingress step on a frame with first byte b (tag = b & 3,
\* value = b >> 2): tag 01 sets sample_rate to (value + 1) * 22050 for
\* value < 32 and to (value - 31) * 24000 otherwise, and no buffer metadata;
\* tag 10 sets only the in-buffer sample count, to (value + 1) * 32; tag 11
\* only the in-buffer channel count, to value + 1; tag 00 none of the
\* three; the out-buffer is never changed.
C20_DecodeStep ==
    (dpc = "ingress" /\ dpc' # "ingress" /\ rbuf' # << >>)
    => LET tag == rbuf'[1] % 4
           value == rbuf'[1] \div 4
           a == dev.in_buffer
           z == dev'.in_buffer
       IN /\ tag = 1 =>
               /\ dev'.sample_rate = IF value < 32 THEN (value + 1) * 22050
                                     ELSE (value - 31) * 24000
               /\ z = a
          /\ tag = 2 =>
               /\ z = [a EXCEPT !.buffer_size = (value + 1) * 32]
               /\ dev'.sample_rate = dev.sample_rate
          /\ tag = 3 =>
               /\ z = [a EXCEPT !.channels = value + 1]
               /\ dev'.sample_rate = dev.sample_rate
          /\ tag = 0 =>
               /\ dev'.sample_rate = dev.sample_rate
               /\ z.buffer_size = a.buffer_size
               /\ z.channels = a.channels
          /\ dev'.out_buffer = dev.out_buffer
C20_MetadataDecode == [][C20_DecodeStep]_vars

\* A one-byte frame of tag 01 and value 63 has set the sample rate to
\* 32 * 24000.
C20_Witness ==
    /\ last.op = "ingress"
    /\ ~last.panic
    /\ rbuf = <<253>>
    /\ dev.sample_rate = 768000

====
